---- MODULE Spec2Model ----
(***************************************************************************)
(* A model of the bidbot Telegram auction bot.                             *)
(*                                                                         *)
(* The repository holds two versions of the bot:                           *)
(*   src/index.js          the simple variant (bid range only)             *)
(*   src/unnamed/part_000  the deadline variant (endTime, bidDirection,    *)
(*                         completed flag and the periodic sweep)          *)
(* The variable `variant` says which of the two programs is running.       *)
(*                                                                         *)
(* Every `await` of the source is a suspension point: a handler is a       *)
(* process whose pc names the call it is suspended in, and one action      *)
(* resumes it and runs the synchronous code up to the next await.          *)
(*                                                                         *)
(* The MongoDB collections are the shared state.  A multi-document         *)
(* transaction (session.startTransaction) is modelled as MongoDB runs it:  *)
(* snapshot reads, writes buffered until commit, a WriteConflict error for *)
(* a write to a document modified since the snapshot or write-locked by    *)
(* another transaction, and writes outside a transaction waiting for the   *)
(* transaction that holds the document.                                    *)
(*                                                                         *)
(* Two specifications share the state: Spec is bidding, the clock and the   *)
(* sweep on a database that holds a registered creator and her item;       *)
(* SpecAdmin is /register and /createitem on an empty database.            *)
(*                                                                         *)
(* Time is counted in sweep periods: 60000 ms (the setInterval period and  *)
(* one minute of auction duration) is one unit of `now`.                   *)
(* Chats are private chats: msg.chat.id = msg.from.id.                     *)
(***************************************************************************)
EXTENDS Integers, Sequences, FiniteSets, Bags, TLC

----------------------------------------------------------------------------
(* Bounds of the model *)

\* /bid commands received (one handler invocation each)
MaxBidCmds == 2
\* /register commands received
MaxRegCmds == 2
\* /createitem commands received
MaxCreateCmds == 2
\* clock ticks = firings of the sweep timer
MaxTime == 2
\* infrastructure calls (database, transport) that throw
MaxFaults == 1
\* auction duration in minutes, the 4th argument of /createitem
MaxDuration == 1
\* /bid commands received plus clock ticks, in one run
MaxLoad == 3

----------------------------------------------------------------------------
(* Inputs *)

UserIds == {"ann", "bob"}
ItemNames == {"lamp"}
\* <low> <high> of /createitem: the spec's example 10-100, and a pair the
\* command refuses
CreateRanges == {<<10, 100>>, <<20, 10>>}
\* <amount> of /bid: zero, below the range, inside it (the spec's racing bids
\* 50 and 60) and above it
BidAmounts == {5, 50, 60, 150}
Directions == {"low", "high"}
Variants == {"simple", "deadline"}

BidSlots == 1..MaxBidCmds
RegSlots == 1..MaxRegCmds
CreateSlots == 1..MaxCreateCmds
SweepSlots == 1..MaxTime
ItemIds == 1..MaxCreateCmds

\* null / undefined of the source
Null == [null |-> TRUE]

VARIABLES
  variant,   \* which program runs: "simple" (index.js) or "deadline" (part_000)
  now,       \* new Date(), in sweep periods
  users,     \* users collection: userId -> number of records {userId, chatId}
  items,     \* items collection: _id -> document, Null once deleted / not yet inserted
  itemVer,   \* storage engine: number of committed writes to each item document
  nextId,    \* the _id the next insertOne into items gets (natural order = _id order)
  bids,      \* bids collection: the committed Bid documents, in insertion order
  outbox,    \* bag of messages handed to bot.sendMessage
  faults,    \* infrastructure calls that have thrown so far
  regH,      \* /register handler invocations
  creH,      \* /createitem handler invocations
  bidH,      \* /bid handler invocations
  lstH,      \* the /biddeditems handler invocation
  swp        \* sweep timer callbacks, one per tick

vars == <<variant, now, users, items, itemVer, nextId, bids, outbox, faults,
          regH, creH, bidH, lstH, swp>>

dbVars == <<users, items, itemVer, nextId, bids>>

----------------------------------------------------------------------------
(* Messages *)

\* bot.sendMessage(to, text): kind names the text, ref the item _id the text is
\* about (0: none), amount the dollar amount the text carries (0: none)
Msg(to, kind, ref, amount) == [to |-> to, kind |-> kind, ref |-> ref, amount |-> amount]

Send(m) == outbox (+) SetToBag({m})

Sent(m) == CopiesIn(m, outbox)

----------------------------------------------------------------------------
(* Persistence gateway *)

\* usersCollection().findOne({ userId })
FindUser(u) == IF users[u] > 0 THEN [userId |-> u, chatId |-> u] ELSE Null

\* itemsCollection().findOne({ name }): the first match in natural order
FindItemByName(name) ==
  LET ids == {i \in ItemIds : items[i] # Null /\ items[i].name = name}
  IN IF ids = {} THEN Null
     ELSE items[CHOOSE i \in ids : \A j \in ids : i <= j]

\* a transaction of some /bid handler holds the write lock of item document i
TxLocked(i) == \E h \in BidSlots : bidH[h].wrote /\ bidH[h].itemWithLock.id = i

\* a transaction of another /bid handler holds the write lock of item document i
LockedByOther(h, i) ==
  \E g \in BidSlots \ {h} : bidH[g].wrote /\ bidH[g].itemWithLock.id = i

\* an awaited infrastructure call may throw
CanFail == faults < MaxFaults

\* /bid commands received plus clock ticks so far
Load == Cardinality({h \in BidSlots : bidH[h].pc # "idle"}) + now

----------------------------------------------------------------------------
(* Handlers before their command arrives; the bot started on an empty database *)

IdleReg == [pc |-> "idle", userId |-> "ann"]

IdleCre == [pc |-> "idle", userId |-> "ann", name |-> "lamp", lowAmount |-> 0,
            highAmount |-> 0, endTime |-> 0, bidDirection |-> "low"]

IdleBid == [pc |-> "idle", userId |-> "ann", itemName |-> "lamp", bidAmount |-> 0,
            item |-> Null, now |-> 0, itemWithLock |-> Null, snapVer |-> 0,
            bid |-> Null, txBids |-> <<>>, wrote |-> FALSE, tx |-> "none"]

IdleList == [pc |-> "idle", userId |-> "ann"]

IdleSweep == [pc |-> "idle", now |-> 0, items |-> <<>>, idx |-> 1]

InitEmpty ==
  /\ variant \in Variants
  /\ now = 0
  /\ users = [u \in UserIds |-> 0]
  /\ items = [i \in ItemIds |-> Null]
  /\ itemVer = [i \in ItemIds |-> 0]
  /\ nextId = 1
  /\ bids = <<>>
  /\ outbox = EmptyBag
  /\ faults = 0
  /\ regH = [r \in RegSlots |-> IdleReg]
  /\ creH = [c \in CreateSlots |-> IdleCre]
  /\ bidH = [h \in BidSlots |-> IdleBid]
  /\ lstH = IdleList
  /\ swp = [s \in SweepSlots |-> IdleSweep]

----------------------------------------------------------------------------
(* /register *)

\* a /register message arrives: the handler runs up to its first await
RegStart(r, u) ==
  /\ regH[r].pc = "idle"
  /\ \A q \in RegSlots : q < r => regH[q].pc # "idle"
  /\ regH' = [regH EXCEPT ![r] = [pc |-> "find", userId |-> u]]
  /\ UNCHANGED <<variant, lstH, now, dbVars, outbox, faults, creH, bidH, swp>>

\* findOne({ userId }) resolves
RegFind(r) ==
  /\ regH[r].pc = "find"
  /\ IF FindUser(regH[r].userId) # Null
     THEN /\ outbox' = Send(Msg(regH[r].userId, "alreadyRegistered", 0, 0))
          /\ regH' = [regH EXCEPT ![r].pc = "done"]
     ELSE /\ regH' = [regH EXCEPT ![r].pc = "insert"]
          /\ UNCHANGED outbox
  /\ UNCHANGED <<variant, lstH, now, dbVars, faults, creH, bidH, swp>>

\* insertOne({ userId, chatId }) resolves
RegInsert(r) ==
  /\ regH[r].pc = "insert"
  /\ users' = [users EXCEPT ![regH[r].userId] = @ + 1]
  /\ outbox' = Send(Msg(regH[r].userId, "registered", 0, 0))
  /\ regH' = [regH EXCEPT ![r].pc = "done"]
  /\ UNCHANGED <<variant, lstH, now, items, itemVer, nextId, bids, faults, creH, bidH, swp>>

\* findOne or insertOne throws: the catch block replies
RegFail(r) ==
  /\ regH[r].pc \in {"find", "insert"}
  /\ CanFail
  /\ faults' = faults + 1
  /\ outbox' = Send(Msg(regH[r].userId, "registerFailed", 0, 0))
  /\ regH' = [regH EXCEPT ![r].pc = "done"]
  /\ UNCHANGED <<variant, lstH, now, dbVars, creH, bidH, swp>>

----------------------------------------------------------------------------
(* /createitem *)

\* the validation of /createitem's numbers
InvalidCreate(lowAmount, highAmount) ==
  lowAmount <= 0 \/ highAmount <= 0 \/ lowAmount >= highAmount

\* the document /createitem inserts
ItemDoc(id, name, creatorId, lowAmount, highAmount, endTime, bidDirection) ==
  IF variant = "simple"
  THEN [id |-> id, name |-> name, creatorId |-> creatorId,
        lowAmount |-> lowAmount, highAmount |-> highAmount, highestBid |-> Null]
  ELSE [id |-> id, name |-> name, creatorId |-> creatorId,
        lowAmount |-> lowAmount, highAmount |-> highAmount,
        endTime |-> endTime, highestBid |-> Null, completed |-> FALSE,
        bidDirection |-> bidDirection]

\* a /createitem message arrives: validation, endTime, then the first await
CreStart(c, u, name, range, duration, dir) ==
  /\ creH[c].pc = "idle"
  /\ \A q \in CreateSlots : q < c => creH[q].pc # "idle"
  /\ IF InvalidCreate(range[1], range[2])
     THEN /\ outbox' = Send(Msg(u, "invalidCreate", 0, 0))
          /\ creH' = [creH EXCEPT ![c] = [IdleCre EXCEPT !.pc = "done", !.userId = u]]
     ELSE /\ creH' = [creH EXCEPT ![c] =
                 [pc |-> "find", userId |-> u, name |-> name,
                  lowAmount |-> range[1], highAmount |-> range[2],
                  endTime |-> IF variant = "simple" THEN 0 ELSE now + duration,
                  bidDirection |-> dir]]
          /\ UNCHANGED outbox
  /\ UNCHANGED <<variant, lstH, now, dbVars, faults, regH, bidH, swp>>

\* findOne({ userId }) resolves
CreFind(c) ==
  /\ creH[c].pc = "find"
  /\ IF FindUser(creH[c].userId) = Null
     THEN /\ outbox' = Send(Msg(creH[c].userId, "needRegister", 0, 0))
          /\ creH' = [creH EXCEPT ![c].pc = "done"]
     ELSE /\ creH' = [creH EXCEPT ![c].pc = "insert"]
          /\ UNCHANGED outbox
  /\ UNCHANGED <<variant, lstH, now, dbVars, faults, regH, bidH, swp>>

\* insertOne(item) resolves
CreInsert(c) ==
  /\ creH[c].pc = "insert"
  /\ items' = [items EXCEPT ![nextId] =
       ItemDoc(nextId, creH[c].name, creH[c].userId, creH[c].lowAmount,
               creH[c].highAmount, creH[c].endTime, creH[c].bidDirection)]
  /\ itemVer' = [itemVer EXCEPT ![nextId] = @ + 1]
  /\ nextId' = nextId + 1
  /\ outbox' = Send(Msg(creH[c].userId, "created", nextId, 0))
  /\ creH' = [creH EXCEPT ![c].pc = "done"]
  /\ UNCHANGED <<variant, lstH, now, users, bids, faults, regH, bidH, swp>>

\* findOne or insertOne throws: the catch block replies
CreFail(c) ==
  /\ creH[c].pc \in {"find", "insert"}
  /\ CanFail
  /\ faults' = faults + 1
  /\ outbox' = Send(Msg(creH[c].userId, "createFailed", 0, 0))
  /\ creH' = [creH EXCEPT ![c].pc = "done"]
  /\ UNCHANGED <<variant, lstH, now, dbVars, regH, bidH, swp>>

----------------------------------------------------------------------------
(* /biddeditems (deadline variant) *)

\* the filter { highestBid: { $exists: true } }: the document has the field,
\* whatever its value
HighestBidExists(item) == "highestBid" \in DOMAIN item

\* find({ highestBid: { $exists: true } }).toArray(), as the set of _ids
BiddedItemsQuery == {i \in ItemIds : items[i] # Null /\ HighestBidExists(items[i])}

\* the 'Bidded items:' text: one line per item of the query's result
ListMsg(to, ids) ==
  [to |-> to, kind |-> "biddedItems", ref |-> 0, amount |-> 0, list |-> ids]

\* a /biddeditems message arrives: the handler awaits its query
ListStart(u) ==
  /\ variant = "deadline"
  /\ lstH.pc = "idle"
  /\ lstH' = [pc |-> "find", userId |-> u]
  /\ UNCHANGED <<variant, now, dbVars, outbox, faults, regH, creH, bidH, swp>>

\* the query resolves: the empty-list text, or the list
ListFind ==
  /\ lstH.pc = "find"
  /\ outbox' = IF BiddedItemsQuery = {}
               THEN Send(Msg(lstH.userId, "noBidded", 0, 0))
               ELSE Send(ListMsg(lstH.userId, BiddedItemsQuery))
  /\ lstH' = [lstH EXCEPT !.pc = "done"]
  /\ UNCHANGED <<variant, now, dbVars, faults, regH, creH, bidH, swp>>

\* the query throws: the catch block replies
ListFail ==
  /\ lstH.pc = "find"
  /\ CanFail
  /\ faults' = faults + 1
  /\ outbox' = Send(Msg(lstH.userId, "listFailed", 0, 0))
  /\ lstH' = [lstH EXCEPT !.pc = "done"]
  /\ UNCHANGED <<variant, now, dbVars, regH, creH, bidH, swp>>

----------------------------------------------------------------------------
(* /bid *)

\* the amount check of /bid
InvalidAmount(bidAmount) == bidAmount <= 0

\* simple variant: the bid is outside the item's range
OutOfRange(item, bidAmount) ==
  bidAmount < item.lowAmount \/ bidAmount > item.highAmount

\* deadline variant: the item takes bids towards low amounts and this one is not
NotTowardsLow(item, bidAmount) ==
  item.bidDirection = "low" /\ bidAmount >= item.highAmount

\* deadline variant: the item takes bids towards high amounts and this one is not
NotTowardsHigh(item, bidAmount) ==
  item.bidDirection = "high" /\ bidAmount <= item.lowAmount

\* mutant of AuctionEnded: a bid at the very end time is still taken
AuctionEndedStrict(item, t) == item.endTime < t

\* deadline variant: the auction is over at time t
AuctionEnded(item, t) == item.endTime <= t

\* mutant of TooLow: a bid equal to the highest bid is taken
TooLowStrict(itemWithLock, bidAmount) ==
  itemWithLock.highestBid # Null /\ bidAmount < itemWithLock.highestBid.amount

\* the bid does not beat the highest bid read inside the transaction
TooLow(itemWithLock, bidAmount) ==
  itemWithLock.highestBid # Null /\ bidAmount <= itemWithLock.highestBid.amount

\* mutant of InsertInSession: insertOne(bid) without the session option
InsertOutsideSession == FALSE

\* insertOne(bid, { session }): the insert belongs to the transaction
InsertInSession == TRUE

\* the storage engine refuses a transactional write to a document that was
\* written after the transaction's snapshot or is write-locked by another one
WriteConflict(h) ==
  LET id == bidH[h].itemWithLock.id
  IN itemVer[id] # bidH[h].snapVer \/ LockedByOther(h, id)

\* the handler returns: finally { session.endSession() } drops what the
\* transaction still holds
Return(h, tx) ==
  [IdleBid EXCEPT !.pc = "done", !.tx = tx, !.userId = bidH[h].userId,
                  !.bidAmount = bidH[h].bidAmount]

\* a /bid message arrives: the amount check, then the first await
BidStart(h, u, name, amount) ==
  /\ bidH[h].pc = "idle"
  /\ \A g \in BidSlots : g < h => bidH[g].pc # "idle"
  /\ Load < MaxLoad
  /\ IF InvalidAmount(amount)
     THEN /\ outbox' = Send(Msg(u, "invalidAmount", 0, 0))
          /\ bidH' = [bidH EXCEPT ![h] =
                 [IdleBid EXCEPT !.pc = "done", !.userId = u, !.bidAmount = amount]]
     ELSE /\ bidH' = [bidH EXCEPT ![h] =
                 [IdleBid EXCEPT !.pc = "lookup", !.userId = u, !.itemName = name,
                                 !.bidAmount = amount]]
          /\ UNCHANGED outbox
  /\ UNCHANGED <<variant, lstH, now, dbVars, faults, regH, creH, swp>>

\* the reply of the checks before the transaction, "none" when they all pass
PreCheck(item, bidAmount, t) ==
  IF item = Null THEN "notExist"
  ELSE IF variant = "simple"
       THEN IF OutOfRange(item, bidAmount) THEN "range" ELSE "none"
       ELSE IF AuctionEnded(item, t) THEN "alreadyEnded"
            ELSE IF NotTowardsLow(item, bidAmount) THEN "notLow"
            ELSE IF NotTowardsHigh(item, bidAmount) THEN "notHigh"
            ELSE "none"

\* findOne({ name }) resolves: the checks, then startSession/startTransaction
\* and the await of the read inside the transaction
BidLookup(h) ==
  /\ bidH[h].pc = "lookup"
  /\ LET item == FindItemByName(bidH[h].itemName)
         why == PreCheck(item, bidH[h].bidAmount, now)
     IN IF why # "none"
        THEN /\ outbox' = Send(Msg(bidH[h].userId, why,
                               IF item = Null THEN 0 ELSE item.id, 0))
             /\ bidH' = [bidH EXCEPT ![h] = Return(h, "none")]
        ELSE /\ bidH' = [bidH EXCEPT ![h].pc = "txRead", ![h].item = item,
                                     ![h].now = now, ![h].tx = "active"]
             /\ UNCHANGED outbox
  /\ UNCHANGED <<variant, lstH, now, dbVars, faults, regH, creH, swp>>

\* findOne({ _id }, { session }) resolves: the transaction's snapshot
BidTxRead(h) ==
  /\ bidH[h].pc = "txRead"
  /\ LET id == bidH[h].item.id
         itemWithLock == items[id]
     IN bidH' = [bidH EXCEPT ![h] =
          IF itemWithLock = Null
          THEN \* itemWithLock.highestBid throws a TypeError
               [@ EXCEPT !.pc = "catch"]
          ELSE IF TooLow(itemWithLock, bidH[h].bidAmount)
          THEN [@ EXCEPT !.pc = "abortLow", !.itemWithLock = itemWithLock,
                         !.snapVer = itemVer[id]]
          ELSE [@ EXCEPT !.pc = "insert", !.itemWithLock = itemWithLock,
                         !.snapVer = itemVer[id],
                         !.bid = [itemId |-> id, userId |-> bidH[h].userId,
                                  amount |-> bidH[h].bidAmount, timestamp |-> now]]]
  /\ UNCHANGED <<variant, lstH, now, dbVars, outbox, faults, regH, creH, swp>>

\* abortTransaction resolves on the "bid too low" path: reply and return
BidAbortLow(h) ==
  /\ bidH[h].pc = "abortLow"
  /\ outbox' = Send(Msg(bidH[h].userId, "tooLow", bidH[h].itemWithLock.id,
                        bidH[h].itemWithLock.highestBid.amount))
  /\ bidH' = [bidH EXCEPT ![h] = Return(h, "aborted")]
  /\ UNCHANGED <<variant, lstH, now, dbVars, faults, regH, creH, swp>>

\* bidsCollection().insertOne(bid, { session }) resolves
BidInsert(h) ==
  /\ bidH[h].pc = "insert"
  /\ IF InsertInSession
     THEN /\ bidH' = [bidH EXCEPT ![h].pc = "update", ![h].txBids = <<bidH[h].bid>>]
          /\ UNCHANGED bids
     ELSE /\ bidH' = [bidH EXCEPT ![h].pc = "update"]
          /\ bids' = Append(bids, bidH[h].bid)
  /\ UNCHANGED <<variant, lstH, now, users, items, itemVer, nextId, outbox, faults,
                 regH, creH, swp>>

\* itemsCollection().updateOne({ _id }, { $set: { highestBid: bid } }, { session })
\* resolves, or throws a WriteConflict
BidUpdate(h) ==
  /\ bidH[h].pc = "update"
  /\ bidH' = [bidH EXCEPT ![h] =
       IF WriteConflict(h)
       THEN [@ EXCEPT !.pc = "catch"]
       ELSE [@ EXCEPT !.wrote = TRUE,
                      !.pc = IF bidH[h].itemWithLock.highestBid # Null
                             THEN "outbid" ELSE "commit"]]
  /\ UNCHANGED <<variant, lstH, now, dbVars, outbox, faults, regH, creH, swp>>

\* usersCollection().findOne({ userId: itemWithLock.highestBid.userId }) resolves:
\* the previous bidder, when registered, is told
BidOutbid(h) ==
  /\ bidH[h].pc = "outbid"
  /\ LET previousBidder == FindUser(bidH[h].itemWithLock.highestBid.userId)
     IN outbox' = IF previousBidder # Null
                  THEN Send(Msg(IF variant = "simple" THEN previousBidder.chatId
                                ELSE previousBidder.userId,
                                "outbid", bidH[h].itemWithLock.id, bidH[h].bidAmount))
                  ELSE outbox
  /\ bidH' = [bidH EXCEPT ![h].pc = "commit"]
  /\ UNCHANGED <<variant, lstH, now, dbVars, faults, regH, creH, swp>>

\* the transaction's writes become visible, all at once
ApplyCommit(h) ==
  LET id == bidH[h].itemWithLock.id
  IN /\ items' = [items EXCEPT ![id].highestBid = bidH[h].bid]
     /\ itemVer' = [itemVer EXCEPT ![id] = @ + 1]
     /\ bids' = bids \o bidH[h].txBids

\* session.commitTransaction() resolves: reply and return
BidCommit(h) ==
  /\ bidH[h].pc = "commit"
  /\ ApplyCommit(h)
  /\ outbox' = Send(Msg(bidH[h].userId, "placed", bidH[h].itemWithLock.id,
                        bidH[h].bidAmount))
  /\ bidH' = [bidH EXCEPT ![h] = Return(h, "committed")]
  /\ UNCHANGED <<variant, lstH, now, users, nextId, faults, regH, creH, swp>>

\* a catch block that only logs: nothing is sent
ErrorReplyNone(h) == outbox

\* bot.sendMessage(chatId, 'Error placing your bid. ...') of the catch blocks
ErrorReply(h) == Send(Msg(bidH[h].userId, "bidError", 0, 0))

\* catch (err): abortTransaction resolves, the generic error is replied
BidCatch(h) ==
  /\ bidH[h].pc = "catch"
  /\ outbox' = ErrorReply(h)
  /\ bidH' = [bidH EXCEPT ![h] =
       Return(h, IF bidH[h].tx = "committed" THEN "committed" ELSE "aborted")]
  /\ UNCHANGED <<variant, lstH, now, dbVars, faults, regH, creH, swp>>

\* an awaited call of the handler throws.  The outer lookup, and the
\* abortTransaction of the catch block, are caught by the outer catch, which
\* replies; a call inside the inner try goes to the inner catch.
BidFail(h) ==
  /\ bidH[h].pc \in {"lookup", "txRead", "abortLow", "insert", "update", "outbid", "catch"}
  /\ CanFail
  /\ faults' = faults + 1
  /\ IF bidH[h].pc \in {"lookup", "catch"}
     THEN /\ outbox' = ErrorReply(h)
          /\ bidH' = [bidH EXCEPT ![h] = Return(h, bidH[h].tx)]
     ELSE /\ bidH' = [bidH EXCEPT ![h].pc = "catch"]
          /\ UNCHANGED outbox
  /\ UNCHANGED <<variant, lstH, now, dbVars, regH, creH, swp>>

\* session.commitTransaction() throws: the server may or may not have committed
BidCommitFail(h, applied) ==
  /\ bidH[h].pc = "commit"
  /\ CanFail
  /\ faults' = faults + 1
  /\ IF applied
     THEN /\ ApplyCommit(h)
          /\ bidH' = [bidH EXCEPT ![h].pc = "catch", ![h].tx = "committed",
                                  ![h].wrote = FALSE, ![h].txBids = <<>>]
     ELSE /\ bidH' = [bidH EXCEPT ![h].pc = "catch"]
          /\ UNCHANGED <<items, itemVer, bids>>
  /\ UNCHANGED <<variant, lstH, now, users, nextId, outbox, regH, creH, swp>>

----------------------------------------------------------------------------
(* The clock and the sweep (deadline variant) *)

RECURSIVE InNaturalOrder(_)
\* the documents with the _ids of S, in natural (insertion) order
InNaturalOrder(S) ==
  IF S = {} THEN <<>>
  ELSE LET m == CHOOSE i \in S : \A j \in S : i <= j
       IN <<items[m]>> \o InNaturalOrder(S \ {m})

\* find({ endTime: { $lte: now }, completed: { $ne: true } }).toArray()
ExpiredItems(t) ==
  InNaturalOrder({i \in ItemIds :
     items[i] # Null /\ items[i].endTime <= t /\ items[i].completed # TRUE})

\* the guard of checkAndFinalizeAuction, on the document the tick's query returned
MustFinalize(item, t) == item.endTime <= t /\ ~item.completed

\* the item the sweep s is finalizing
Current(s) == swp[s].items[swp[s].idx]

\* checkAndFinalizeAuction returns: the for loop goes to the next item
NextItem(s) ==
  IF swp[s].idx < Len(swp[s].items)
  THEN [swp[s] EXCEPT !.idx = @ + 1, !.pc = "winner"]
  ELSE [IdleSweep EXCEPT !.pc = "done", !.now = swp[s].now]

\* A sweep period passes; in the deadline variant the setInterval callback
\* starts, reads the clock and awaits its query
Tick ==
  /\ now < MaxTime
  /\ Load < MaxLoad
  /\ now' = now + 1
  /\ swp' = IF variant = "deadline"
            THEN [swp EXCEPT ![now + 1] = [IdleSweep EXCEPT !.pc = "query", !.now = now + 1]]
            ELSE swp
  /\ UNCHANGED <<variant, lstH, dbVars, outbox, faults, regH, creH, bidH>>

\* the query resolves: the loop enters checkAndFinalizeAuction for the first item
SweepQuery(s) ==
  /\ swp[s].pc = "query"
  /\ LET found == ExpiredItems(swp[s].now)
     IN swp' = [swp EXCEPT ![s] =
          IF found = <<>> THEN [IdleSweep EXCEPT !.pc = "done", !.now = swp[s].now]
          ELSE [@ EXCEPT !.pc = "winner", !.items = found, !.idx = 1]]
  /\ UNCHANGED <<variant, lstH, now, dbVars, outbox, faults, regH, creH, bidH>>

\* checkAndFinalizeAuction: the guard, then the winner is looked up and told
SweepWinner(s) ==
  /\ swp[s].pc = "winner"
  /\ LET item == Current(s)
     IN IF ~MustFinalize(item, now)
        THEN /\ swp' = [swp EXCEPT ![s] = NextItem(s)]
             /\ UNCHANGED outbox
        ELSE /\ swp' = [swp EXCEPT ![s].pc = "creator"]
             /\ outbox' =
                  IF item.highestBid # Null /\ FindUser(item.highestBid.userId) # Null
                  THEN Send(Msg(FindUser(item.highestBid.userId).userId, "won",
                                item.id, item.highestBid.amount))
                  ELSE outbox
  /\ UNCHANGED <<variant, lstH, now, dbVars, faults, regH, creH, bidH>>

\* the creator is looked up and told the final amount
SweepCreator(s) ==
  /\ swp[s].pc = "creator"
  /\ LET item == Current(s)
     IN outbox' =
          IF FindUser(item.creatorId) # Null
          THEN Send(Msg(FindUser(item.creatorId).userId, "auctionEnded", item.id,
                        IF item.highestBid # Null THEN item.highestBid.amount ELSE 0))
          ELSE outbox
  /\ swp' = [swp EXCEPT ![s].pc = "mark"]
  /\ UNCHANGED <<variant, lstH, now, dbVars, faults, regH, creH, bidH>>

\* updateOne({ _id }, { $set: { completed: true } }) resolves; it waits for a
\* transaction that holds the document
SweepMark(s) ==
  /\ swp[s].pc = "mark"
  /\ LET id == Current(s).id
     IN /\ ~TxLocked(id)
        /\ IF items[id] # Null /\ ~items[id].completed
           THEN /\ items' = [items EXCEPT ![id].completed = TRUE]
                /\ itemVer' = [itemVer EXCEPT ![id] = @ + 1]
           ELSE UNCHANGED <<items, itemVer>>
  /\ swp' = [swp EXCEPT ![s].pc = "delete"]
  /\ UNCHANGED <<variant, lstH, now, users, nextId, bids, outbox, faults, regH, creH, bidH>>

\* deleteOne({ _id }) resolves
SweepDelete(s) ==
  /\ swp[s].pc = "delete"
  /\ LET id == Current(s).id
     IN /\ ~TxLocked(id)
        /\ IF items[id] # Null
           THEN /\ items' = [items EXCEPT ![id] = Null]
                /\ itemVer' = [itemVer EXCEPT ![id] = @ + 1]
           ELSE UNCHANGED <<items, itemVer>>
  /\ swp' = [swp EXCEPT ![s] = NextItem(s)]
  /\ UNCHANGED <<variant, lstH, now, users, nextId, bids, outbox, faults, regH, creH, bidH>>

\* an awaited call of the sweep throws: the query, a lookup or a notification
\* ends the tick (the callback's catch); updateOne or deleteOne is caught
\* inside checkAndFinalizeAuction, which returns
SweepFail(s) ==
  /\ swp[s].pc \in {"query", "winner", "creator", "mark", "delete"}
  /\ CanFail
  /\ faults' = faults + 1
  /\ swp' = [swp EXCEPT ![s] =
       IF swp[s].pc \in {"mark", "delete"} THEN NextItem(s)
       ELSE [IdleSweep EXCEPT !.pc = "done", !.now = swp[s].now]]
  /\ UNCHANGED <<variant, lstH, now, dbVars, outbox, regH, creH, bidH>>

----------------------------------------------------------------------------
(* The system *)

\* the registration and item creation commands
NextAdmin ==
  \/ \E r \in RegSlots, u \in UserIds : RegStart(r, u)
  \/ \E r \in RegSlots : RegFind(r)
  \/ \E r \in RegSlots : RegInsert(r)
  \/ \E r \in RegSlots : RegFail(r)
  \/ \E c \in CreateSlots, u \in UserIds, name \in ItemNames, range \in CreateRanges,
        duration \in 1..MaxDuration, dir \in Directions :
        CreStart(c, u, name, range, duration, dir)
  \/ \E c \in CreateSlots : CreFind(c)
  \/ \E c \in CreateSlots : CreInsert(c)
  \/ \E c \in CreateSlots : CreFail(c)
  \/ \E u \in UserIds : ListStart(u)
  \/ ListFind
  \/ ListFail

\* bidding, the clock and the sweep
Next ==
  \/ \E h \in BidSlots, u \in UserIds, name \in ItemNames, amount \in BidAmounts :
        BidStart(h, u, name, amount)
  \/ \E h \in BidSlots : BidLookup(h)
  \/ \E h \in BidSlots : BidTxRead(h)
  \/ \E h \in BidSlots : BidAbortLow(h)
  \/ \E h \in BidSlots : BidInsert(h)
  \/ \E h \in BidSlots : BidUpdate(h)
  \/ \E h \in BidSlots : BidOutbid(h)
  \/ \E h \in BidSlots : BidCommit(h)
  \/ \E h \in BidSlots : BidCatch(h)
  \/ \E h \in BidSlots : BidFail(h)
  \/ \E h \in BidSlots, applied \in BOOLEAN : BidCommitFail(h, applied)
  \/ Tick
  \/ \E s \in SweepSlots : SweepQuery(s)
  \/ \E s \in SweepSlots : SweepWinner(s)
  \/ \E s \in SweepSlots : SweepCreator(s)
  \/ \E s \in SweepSlots : SweepMark(s)
  \/ \E s \in SweepSlots : SweepDelete(s)
  \/ \E s \in SweepSlots : SweepFail(s)

\* The bot runs on a database that earlier commands filled: ann registered
\* and created the item "lamp" at time 0 for one minute; bob registered or not.
Init ==
  /\ variant \in Variants
  /\ now = 0
  /\ \E n \in {0, 1} : users = [u \in UserIds |-> IF u = "ann" THEN 1 ELSE n]
  /\ \E range \in {r \in CreateRanges : ~InvalidCreate(r[1], r[2])}, dir \in Directions :
       items = [i \in ItemIds |->
                 IF i = 1 THEN ItemDoc(1, "lamp", "ann", range[1], range[2], 1, dir)
                 ELSE Null]
  /\ itemVer = [i \in ItemIds |-> IF i = 1 THEN 1 ELSE 0]
  /\ nextId = 2
  /\ bids = <<>>
  /\ outbox = EmptyBag
  /\ faults = 0
  /\ regH = [r \in RegSlots |-> IdleReg]
  /\ creH = [c \in CreateSlots |-> IdleCre]
  /\ bidH = [h \in BidSlots |-> IdleBid]
  /\ lstH = IdleList
  /\ swp = [s \in SweepSlots |-> IdleSweep]

Spec == Init /\ [][Next]_vars

SpecAdmin == InitEmpty /\ [][NextAdmin]_vars

\* the clock and the sweep alone
NextSweep ==
  \/ Tick
  \/ \E s \in SweepSlots : SweepQuery(s)
  \/ \E s \in SweepSlots : SweepWinner(s)
  \/ \E s \in SweepSlots : SweepCreator(s)
  \/ \E s \in SweepSlots : SweepMark(s)
  \/ \E s \in SweepSlots : SweepDelete(s)
  \/ \E s \in SweepSlots : SweepFail(s)

\* The deadline bot runs on a database holding two auctions that end at time
\* 1: ann's "lamp", on which bob bid 50 or nobody bid, and a "vase" of ann or
\* bob without bids.
InitSweep ==
  /\ variant = "deadline"
  /\ now = 0
  /\ users = [u \in UserIds |-> 1]
  /\ \E hb \in {Null, [userId |-> "bob", amount |-> 50, timestamp |-> 0]},
        creator \in UserIds, dir \in Directions :
       /\ items = [i \in ItemIds |->
            IF i = 1
            THEN [ItemDoc(1, "lamp", "ann", 10, 100, 1, dir) EXCEPT !.highestBid = hb]
            ELSE ItemDoc(i, "vase", creator, 10, 100, 1, dir)]
       /\ bids = IF hb = Null THEN <<>>
                 ELSE <<[itemId |-> 1, userId |-> "bob", amount |-> 50, timestamp |-> 0]>>
       /\ itemVer = [i \in ItemIds |-> IF i = 1 /\ hb # Null THEN 2 ELSE 1]
  /\ nextId = MaxCreateCmds + 1
  /\ outbox = EmptyBag
  /\ faults = 0
  /\ regH = [r \in RegSlots |-> IdleReg]
  /\ creH = [c \in CreateSlots |-> IdleCre]
  /\ bidH = [h \in BidSlots |-> IdleBid]
  /\ lstH = IdleList
  /\ swp = [s \in SweepSlots |-> IdleSweep]

SpecSweep == InitSweep /\ [][NextSweep]_vars

\* The timer keeps firing after the clock has reached the last time the model
\* counts: a callback that has returned runs again, reading that time
Refire(s) ==
  /\ variant = "deadline"
  /\ now = MaxTime
  /\ swp[s].pc = "done"
  /\ swp' = [swp EXCEPT ![s] = [IdleSweep EXCEPT !.pc = "query", !.now = now]]
  /\ UNCHANGED <<variant, lstH, now, dbVars, outbox, faults, regH, creH, bidH>>

\* the clock and the sweep, firing for ever
NextSweepFair ==
  \/ NextSweep
  \/ \E s \in SweepSlots : Refire(s)

\* time passes, the timer fires every period, and every awaited call of a
\* callback resolves (or throws, while faults are left)
SweepFairness ==
  /\ WF_vars(Tick)
  /\ \A s \in SweepSlots :
       /\ WF_vars(Refire(s))
       /\ WF_vars(SweepQuery(s))
       /\ WF_vars(SweepWinner(s))
       /\ WF_vars(SweepCreator(s))
       /\ WF_vars(SweepMark(s))
       /\ WF_vars(SweepDelete(s))

SpecSweepFair == InitSweep /\ [][NextSweepFair]_vars /\ SweepFairness

----------------------------------------------------------------------------
(* Properties *)

\* the item documents that exist
Stored == {i \in ItemIds : items[i] # Null}

\* item i exists before and after the step and its highestBid is replaced
Replaced(i) ==
  /\ items[i] # Null
  /\ items'[i] # Null
  /\ items'[i].highestBid # items[i].highestBid

\* number of messages of a kind sent about item i
CountKind(kind, i) ==
  LET S == {m \in BagToSet(outbox) : m.kind = kind /\ m.ref = i}
  IN BagCardinality([m \in S |-> outbox[m]])

\* C1: in every reachable state, every stored item has no highestBid or a
\* highestBid whose amount lies within [lowAmount, highAmount].
C1_HighestBidWithinBounds ==
  \A i \in Stored :
     \/ items[i].highestBid = Null
     \/ /\ items[i].lowAmount <= items[i].highestBid.amount
        /\ items[i].highestBid.amount <= items[i].highAmount

\* C2: every committed replacement of an item's highestBid has an amount
\* strictly greater than the amount it replaces.
C2_StrictlyIncreasing ==
  [][\A i \in ItemIds :
       (Replaced(i) /\ items[i].highestBid # Null)
         => items'[i].highestBid.amount > items[i].highestBid.amount]_vars

\* C2 witness: two bids were committed on the same stored item, the second
\* replacing the first as its highestBid.
C2_Witness ==
  /\ Len(bids) = 2
  /\ bids[1].itemId = bids[2].itemId
  /\ items[bids[2].itemId] # Null
  /\ items[bids[2].itemId].highestBid = bids[2]

\* C3: two /bid handlers with amounts 50 and 60 on the open item with bounds
\* 10-100 and no prior bid, no infrastructure call failing: once both have
\* finished the item's highestBid.amount is 60, and when the log shows that 60
\* was committed alone the bidder of 50 was sent the rejection naming 60.
C3_RaceKeepsHigher ==
  (/\ \A h \in BidSlots : bidH[h].pc = "done"
   /\ {bidH[h].bidAmount : h \in BidSlots} = {50, 60}
   /\ faults = 0
   /\ now = 0)
  => /\ items[1] # Null
     /\ items[1].highestBid # Null
     /\ items[1].highestBid.amount = 60
     /\ (Len(bids) = 1 =>
           \E h \in BidSlots :
              /\ bidH[h].bidAmount = 50
              /\ Sent(Msg(bidH[h].userId, "tooLow", 1, 60)) >= 1)

\* every non-null highestBid of a stored item is a record of the bid log
C4_HighestBidLogged ==
  \A i \in Stored :
     items[i].highestBid # Null => \E k \in 1..Len(bids) : bids[k] = items[i].highestBid

\* a step that changes the bid log or replaces a highestBid appends exactly one
\* Bid record and installs that record as the highestBid of its stored item
C4_Step ==
  (bids' # bids \/ \E i \in ItemIds : Replaced(i))
  => \E i \in Stored :
        /\ Len(bids') = Len(bids) + 1
        /\ bids' = Append(bids, bids'[Len(bids')])
        /\ bids'[Len(bids')].itemId = i
        /\ items' = [items EXCEPT ![i].highestBid = bids'[Len(bids')]]

\* C4: appending the Bid record and overwriting highestBid are all-or-nothing:
\* in every state each non-null highestBid is a record of the log, and every
\* step that touches one of the two touches both, for the same Bid record.
C4_AllOrNothing == []C4_HighestBidLogged /\ [][C4_Step]_vars

\* C4 witness: one bid is committed and installed, while another transaction
\* that has already inserted its Bid record failed and is about to abort.
C4_Witness ==
  /\ Len(bids) = 1
  /\ items[1] # Null
  /\ items[1].highestBid = bids[1]
  /\ \E h \in BidSlots : bidH[h].pc = "catch" /\ Len(bidH[h].txBids) = 1

\* C5 as claimed: no highestBid of an item with a deadline is committed at a
\* moment when the current time is at or past the item's endTime.
C5_NoCommitAfterEnd ==
  [][\A i \in ItemIds :
       (variant = "deadline" /\ Replaced(i)) => now < items[i].endTime]_vars

\* C5 amended: a /bid handler commits only if now < endTime held when it read
\* the clock, right after its lookup of the item.
C5_CheckedBeforeEnd ==
  [][\A h \in BidSlots :
       (variant = "deadline" /\ bidH[h].pc = "commit" /\ bidH'[h].tx = "committed")
         => bidH[h].now < bidH[h].item.endTime]_vars

\* C5 witness: in the deadline variant the stored highestBid was built, inside
\* its transaction, at a time at or past the item's endTime, and then committed.
C5_Witness ==
  /\ variant = "deadline"
  /\ items[1] # Null
  /\ items[1].highestBid # Null
  /\ items[1].highestBid.timestamp >= items[1].endTime

\* C6: whenever finalization removes an item whose highestBid is non-null, a
\* "won" notification carrying highestBid.amount has been dispatched to the
\* user who placed that bid.
C6_WinnerNotified ==
  [][\A i \in ItemIds :
       (items[i] # Null /\ items'[i] = Null /\ items[i].highestBid # Null)
         => Sent(Msg(items[i].highestBid.userId, "won", i,
                     items[i].highestBid.amount)) >= 1]_vars

\* C7: the users collection never holds more than one record with the same
\* userId, whatever the interleaving of the /register handlers.
C7_OneRecordPerUser == \A u \in UserIds : users[u] <= 1

\* C8: a /bid whose amount is below the lowAmount of the item it finds (the
\* auction not being over) is rejected on the spot with a range-violation
\* message and leaves the items and bids collections unchanged.
C8_BelowLowRejected ==
  [][\A h \in BidSlots :
       LET item == FindItemByName(bidH[h].itemName)
       IN (/\ bidH[h].pc = "lookup"
           /\ bidH'[h] # bidH[h]
           /\ faults' = faults
           /\ item # Null
           /\ variant = "deadline" => ~AuctionEnded(item, now)
           /\ bidH[h].bidAmount < item.lowAmount)
          => /\ bidH'[h].pc = "done"
             /\ \E kind \in {"range", "notLow", "notHigh"} :
                   outbox' = Send(Msg(bidH[h].userId, kind, item.id, 0))
             /\ UNCHANGED <<items, bids>>]_vars

\* C9: when the lookup of the previous highest bidder resolves, the "outbid"
\* message is dispatched exactly when that bidder is registered and differs
\* from the new bidder.
C9_OutbidOnlyToOthers ==
  [][\A h \in BidSlots :
       (bidH[h].pc = "outbid" /\ bidH'[h].pc = "commit")
         => LET prev == bidH[h].itemWithLock.highestBid.userId
                m == Msg(prev, "outbid", bidH[h].itemWithLock.id, bidH[h].bidAmount)
            IN (outbox' = Send(m)) <=> (prev # bidH[h].userId /\ FindUser(prev) # Null)]_vars

\* C10: for every item, at most one "won" and at most one "auction ended"
\* notification is ever sent.
C10_NotifiedOnce ==
  \A i \in ItemIds : CountKind("won", i) <= 1 /\ CountKind("auctionEnded", i) <= 1

----------------------------------------------------------------------------
(* C11: a failure while one item is finalized does not abort the tick *)

\* the tick of sweep s ends in this step, while it was finalizing an item
TickEnds(s) ==
  /\ swp[s].pc \in {"winner", "creator", "mark", "delete"}
  /\ swp'[s].pc = "done"

\* C11: Within one sweep tick a failure while finalizing one item (a
\* persistence or a notification call that throws) does not end the tick:
\* the tick ends only on the last item its query matched, so every other
\* matched item is still handed to the finalization in the same tick.
C11_FailureDoesNotAbortTick ==
  [][\A s \in SweepSlots : TickEnds(s) => swp[s].idx = Len(swp[s].items)]_vars

----------------------------------------------------------------------------
(* C12: one reply per /bid command *)

\* the texts the /bid handler answers its sender with
ReplyKinds == {"invalidAmount", "notExist", "alreadyEnded", "range", "notLow",
               "notHigh", "tooLow", "bidError", "placed"}

\* how many of the messages handed to bot.sendMessage are in the set S
Count(S) ==
  LET T == S \cap BagToSet(outbox)
  IN BagCardinality([m \in T |-> outbox[m]])

\* the replies user u got from /bid handlers
RepliesTo(u) == {m \in BagToSet(outbox) : m.to = u /\ m.kind \in ReplyKinds}

\* the /bid commands of user u whose handler has returned
Returned(u) == {h \in BidSlots : bidH[h].pc = "done" /\ bidH[h].userId = u}

----------------------------------------------------------------------------
(* C13: item names are unique *)

\* C13: The item name is a unique key: after any sequence of /createitem
\* commands no two item documents with the same name exist together.
C13_UniqueItemNames ==
  \A i, j \in Stored : items[i].name = items[j].name => i = j

----------------------------------------------------------------------------
(* C14: /biddeditems lists the items that received a bid *)

\* the existing items with at least one accepted bid
Bidded == {i \in Stored : items[i].highestBid # Null}

\* C14: When /biddeditems answers from its query, the reply lists exactly the
\* existing items that received at least one accepted bid: an item whose
\* highestBid is null never appears, and when no item has a bid the reply is
\* 'No items have received bids yet'.
C14_ListsExactlyBidded ==
  [][lstH.pc = "find" /\ lstH'.pc = "done" /\ faults' = faults
       => outbox' = IF Bidded = {}
                    THEN Send(Msg(lstH.userId, "noBidded", 0, 0))
                    ELSE Send(ListMsg(lstH.userId, Bidded))]_vars

----------------------------------------------------------------------------
(* C15: the outbid notification belongs to a committed bid *)

\* a bid of amount a on item i is in the log
Logged(i, a) == \E k \in 1..Len(bids) : bids[k].itemId = i /\ bids[k].amount = a

\* a bid of amount a on item i awaits its commitTransaction
Committing(i, a) ==
  \E h \in BidSlots :
    bidH[h].pc = "commit" /\ bidH[h].bid.itemId = i /\ bidH[h].bid.amount = a

\* every 'outbid' message is about a bid that is in the log or about to commit
OutbidOnlyForLiveBid ==
  \A m \in BagToSet(outbox) :
    m.kind = "outbid" => Logged(m.ref, m.amount) \/ Committing(m.ref, m.amount)

\* C15: An 'outbid' notification is only dispatched for a bid that is
\* committed: no 'outbid' message exists on behalf of a bid whose transaction
\* has aborted or failed to commit; and a failure while the previous bidder is
\* looked up or notified never sends the new bid to the catch block, where it
\* is rolled back and rejected.
C15_OutbidOnlyForCommitted ==
  /\ []OutbidOnlyForLiveBid
  /\ [][\A h \in BidSlots : bidH[h].pc = "outbid" => bidH'[h].pc # "catch"]_vars

----------------------------------------------------------------------------
(* C16, C17: the order of finalization *)

\* number of finalization notifications ('won', 'auction ended') sent about item i
FinalizationSent(i) == CountKind("won", i) + CountKind("auctionEnded", i)

\* this step dispatches a finalization notification about item i
Notifies(i) == FinalizationSent(i)' > FinalizationSent(i)

\* C16: Finalization first sets completed = true, then sends the winner and
\* creator notifications, then deletes the item: no finalization notification
\* is dispatched for an item whose completed flag is still false.
C16_CompletedBeforeNotified ==
  [][\A i \in ItemIds : Notifies(i) => items[i] # Null /\ items[i].completed]_vars

\* C17: The amount announced by the finalization notifications is final: once
\* a finalization notification has been dispatched for an item, no /bid on
\* that item is committed (its highestBid is not replaced) nor answered 'has
\* been placed'.
C17_NoBidAfterNotification ==
  [][\A i \in ItemIds :
       FinalizationSent(i) > 0 =>
         /\ ~Replaced(i)
         /\ CountKind("placed", i)' = CountKind("placed", i)]_vars

----------------------------------------------------------------------------
(* C18: the transaction discipline of /bid *)

\* C18: Every transaction a /bid handler started is committed or aborted by
\* the time the handler has returned, on every exit path (acceptance, bid too
\* low, item vanished, an exception of a call inside the transaction); a
\* handler that returned before startTransaction has none.
C18_TransactionClosed ==
  \A h \in BidSlots :
    bidH[h].pc = "done" => bidH[h].tx \in {"none", "committed", "aborted"}

----------------------------------------------------------------------------
(* C19, C20: rejected bids change nothing; the bid log *)

\* the 'has been placed' reply to the bid b
PlacedFor(b) == Msg(b.userId, "placed", b.itemId, b.amount)

\* the /bid command that carries the bid b has not been answered yet
Unanswered(b) ==
  \E h \in BidSlots :
    /\ bidH[h].pc \notin {"idle", "done"}
    /\ bidH[h].userId = b.userId /\ bidH[h].bidAmount = b.amount

\* the /bid handlers whose commit is applied and that have not replied yet
Unacknowledged == {h \in BidSlots : bidH[h].pc = "catch" /\ bidH[h].tx = "committed"}

\* C19: A /bid answered with a rejection or an error leaves the items and the
\* bids collection as they were, only an accepted bid changes state: every
\* Bid record in the log, and every highestBid of an item, belongs to a bid
\* that was answered 'has been placed' (or whose command is not answered yet).
C19_OnlyAcceptedBidsChangeState ==
  /\ \A k \in 1..Len(bids) : Sent(PlacedFor(bids[k])) >= 1 \/ Unanswered(bids[k])
  /\ \A i \in Stored :
        items[i].highestBid # Null =>
          Sent(PlacedFor(items[i].highestBid)) >= 1 \/ Unanswered(items[i].highestBid)

\* C20: The bid log is append-only, with one row per accepted bid: no step
\* modifies or removes an existing Bid record, and the number of Bid records
\* always equals the number of bids answered 'has been placed' (plus the
\* committed bids whose handler has not replied yet).
C20_LogMatchesPlaced ==
  /\ [](Len(bids) = Count({m \in BagToSet(outbox) : m.kind = "placed"})
                      + Cardinality(Unacknowledged))
  /\ [][/\ Len(bids') >= Len(bids)
        /\ SubSeq(bids', 1, Len(bids)) = bids]_vars

----------------------------------------------------------------------------
(* C21: the lifecycle of an item with a deadline *)

\* item i exists and its endTime has passed
Expired(i) == items[i] # Null /\ items[i].endTime <= now

\* this step is sweep s notifying about, marking or deleting its current item
SweepActs(s) ==
  /\ swp[s].pc \in {"winner", "creator", "mark", "delete"}
  /\ swp'[s] # swp[s]
  /\ outbox' # outbox \/ items' # items

\* the sweep notifies about, marks and deletes only items whose endTime has passed
OnlyAfterEnd == [][\A s \in SweepSlots : SweepActs(s) => Current(s).endTime <= now]_vars

\* C21: Every item with a deadline goes OPEN -> EXPIRED_PENDING_FINALIZATION
\* -> FINALIZED(deleted): the sweep does not mark, notify about or delete an
\* item while now < endTime, and, the sweep firing fairly, every item whose
\* endTime has passed is eventually deleted.
C21_Lifecycle ==
  /\ OnlyAfterEnd
  /\ \A i \in ItemIds : Expired(i) ~> items[i] = Null

====
